---- MODULE Spec2Model ----
(***************************************************************************)
(* Wolf-sheep predation: the animal step (move, metabolize, feed, resolve) *)
(* of agents.py, the grass patch with its scheduling setter, and the tick  *)
(* loop, event queue, agent store and grid that agents.py runs on.         *)
(*                                                                         *)
(* Energy is a dyadic rational held as an integer count of 1/Unit, so the  *)
(* halving of spawn_offspring is computed, not assumed, to be exact.       *)
(* Probabilities and random draws are held in units of 1/PScale.           *)
(***************************************************************************)
EXTENDS Integers, Sequences, FiniteSets, TLC

VARIABLES scenario, ncells, time, pc, order,
          kind, status, energy, cell, p_reproduce, energy_from_food,
          agents, grassCell, fully_grown, grass_regrowth_time, queue,
          eatenAt, eaten, bornAt, lastStep, grave, tr

vars == <<scenario, ncells, time, pc, order,
          kind, status, energy, cell, p_reproduce, energy_from_food,
          agents, grassCell, fully_grown, grass_regrowth_time, queue,
          eatenAt, eaten, bornAt, lastStep, grave, tr>>

animalVars == <<kind, status, energy, cell, p_reproduce, energy_from_food, agents, bornAt, grave>>
grassVars == <<grassCell, fully_grown, grass_regrowth_time, queue, eatenAt>>

----------------------------------------------------------------------------
(* Bounds of the model *)

MaxAgents == 3
MaxTick == 3
PScale == 2

(* Initial populations and parameters: the grid is one cell or a row of    *)
(* three; the first animal starts in the middle cell; at most the first    *)
(* patch starts not grown; energy is in whole units, probabilities in      *)
(* units of 1/PScale.                                                      *)
GridWidths == {1, 3}
InitIds == {1, 2}
InitEnergy == {0, 1}
InitGain == {2}
InitRegrowth == {0, 1, 2}
InitCountdown == {0, 1}

Ids == 1..MaxAgents
Unit == 2 ^ MaxAgents
NoCell == 0
NoId == 0

Cells == 1..ncells
Patches == 1..ncells
Alive == {a \in Ids : status[a] = "alive"}

----------------------------------------------------------------------------
(* Grid: a row of ncells cells, each adjacent to the cells next to it *)

Neighborhood(c) == {d \in Cells : d # c /\ d - c \in {-1, 1}}

Select(cells, Pred(_)) == {c \in cells : Pred(c)}

IsWolf(a) == kind[a] = "Wolf"
IsSheep(a) == kind[a] = "Sheep"

(* cell.agents holds the animals and the grass patch of the cell *)
PatchesAt(c) == {g \in Patches : grassCell[g] = c}

(* Moving an agent: vacate the old cell, place in the new one *)
Vacate(ag, a) == [c \in DOMAIN ag |-> ag[c] \ {a}]
Place(ag, a, c) == [ag EXCEPT ![c] = @ \cup {a}]
MoveTo(ag, a, c) == Place(Vacate(ag, a), a, c)

----------------------------------------------------------------------------
(* Event scheduler *)

Event(due, g) == [due |-> due, target |-> g]

ScheduleEventRelative(q, delay, g) == Append(q, Event(time + delay, g))

IsDue(e) == e.due <= time
IsPending(e) == ~IsDue(e)

Pending(g) == {i \in 1..Len(queue) : queue[i].target = g}

----------------------------------------------------------------------------
(* GrassPatch *)

(* Variant: the regrowth is scheduled one tick late *)
SetterQueueLate(q, g, value) ==
    IF ~value THEN ScheduleEventRelative(q, grass_regrowth_time[g] + 1, g) ELSE q

(* Variant: the regrowth time is taken as an absolute time *)
SetterQueueAbsolute(q, g, value) ==
    IF ~value THEN Append(q, Event(grass_regrowth_time[g], g)) ELSE q

(* Variant: no regrowth is scheduled for a patch whose regrowth time is 0 *)
SetterQueueSkipsZero(q, g, value) ==
    IF ~value /\ grass_regrowth_time[g] > 0
    THEN ScheduleEventRelative(q, grass_regrowth_time[g], g) ELSE q

(* fully_grown setter: the queue after assigning value to patch g *)
SetterQueue(q, g, value) ==
    IF ~value THEN ScheduleEventRelative(q, grass_regrowth_time[g], g) ELSE q

(* GrassPatch.__init__: the queue after creating the patches one by one *)
RECURSIVE InitQueue(_, _)
InitQueue(countdown, n) ==
    IF n = 0 THEN <<>>
    ELSE IF countdown[n] # 0
         THEN Append(InitQueue(countdown, n - 1), Event(countdown[n], n))
         ELSE InitQueue(countdown, n - 1)

----------------------------------------------------------------------------
(* Step-local record: what the step in progress has done so far *)

NoTr == [op |-> "none", id |-> NoId, from |-> NoCell, eMetab |-> 0, fed |-> FALSE,
         eResolve |-> 0, prey |-> NoId, child |-> NoId]

(* History of the current tick, cleared when the clock advances: lastStep  *)
(* is the tick of an animal's step, bornAt the tick of its creation (0 for *)
(* an animal of an earlier tick), grave where and when it was removed;     *)
(* eatenAt is the tick a patch was last eaten, kept until the tick after   *)
(* it has regrown.                                                         *)
NoGrave == [tick |-> -1, cell |-> NoCell]
Buried(gr, a) == [gr EXCEPT ![a] = [tick |-> time, cell |-> cell[a]]]

(* The activation list holds the slots still to come; its head is the slot in turn *)
Cur == Head(order)
InStep == pc \in {"metab", "feed", "resolve"}

----------------------------------------------------------------------------
(* The general family of initial states *)
InitGeneral ==
    /\ scenario = "general"
    /\ ncells \in GridWidths
    /\ time = 0
    /\ pc = "idle"
    /\ order = <<>>
    /\ \E k \in [InitIds -> {"Sheep", "Wolf"}], e \in InitEnergy, gain \in InitGain,
          p \in {0, 1, PScale}, at \in [InitIds -> 1..ncells] :
          /\ at[1] = (ncells + 1) \div 2
          /\ kind = [a \in Ids |-> IF a \in InitIds THEN k[a] ELSE "none"]
          /\ status = [a \in Ids |-> IF a \in InitIds THEN "alive" ELSE "unborn"]
          /\ energy = [a \in Ids |-> IF a \in InitIds THEN e * Unit ELSE 0]
          /\ cell = [a \in Ids |-> IF a \in InitIds THEN at[a] ELSE NoCell]
          /\ p_reproduce = [a \in Ids |-> IF a \in InitIds THEN p ELSE 0]
          /\ energy_from_food = [a \in Ids |-> IF a \in InitIds THEN gain * Unit ELSE 0]
          /\ agents = [c \in 1..ncells |-> {a \in InitIds : at[a] = c}]
    /\ bornAt = [a \in Ids |-> IF a \in InitIds THEN 0 ELSE -1]
    /\ grassCell = [g \in 1..ncells |-> g]
    /\ \E r \in InitRegrowth, countdown \in [1..ncells -> InitCountdown] :
          /\ \A g \in 2..ncells : countdown[g] = 0
          /\ fully_grown = [g \in 1..ncells |-> countdown[g] = 0]
          /\ grass_regrowth_time = [g \in 1..ncells |-> r]
          /\ queue = InitQueue(countdown, ncells)
    /\ eatenAt = [g \in 1..ncells |-> -1]
    /\ eaten = [a \in Ids |-> 0]
    /\ lastStep = [a \in Ids |-> -1]
    /\ grave = [a \in Ids |-> NoGrave]
    /\ tr = NoTr

(* The state after construction of one Wolf and one Sheep in the same cell, *)
(* both with energy 5 and energy_from_food 4, neither reproducing          *)
InitWolfSheep ==
    /\ scenario = "wolf_sheep"
    /\ ncells \in GridWidths
    /\ time = 0
    /\ pc = "idle"
    /\ order = <<>>
    /\ \E c \in 1..ncells :
          /\ cell = [a \in Ids |-> IF a \in {1, 2} THEN c ELSE NoCell]
          /\ agents = [d \in 1..ncells |-> IF d = c THEN {1, 2} ELSE {}]
    /\ kind = [a \in Ids |-> IF a = 1 THEN "Wolf" ELSE IF a = 2 THEN "Sheep" ELSE "none"]
    /\ status = [a \in Ids |-> IF a \in {1, 2} THEN "alive" ELSE "unborn"]
    /\ energy = [a \in Ids |-> IF a \in {1, 2} THEN 5 * Unit ELSE 0]
    /\ p_reproduce = [a \in Ids |-> 0]
    /\ energy_from_food = [a \in Ids |-> IF a \in {1, 2} THEN 4 * Unit ELSE 0]
    /\ bornAt = [a \in Ids |-> IF a \in {1, 2} THEN 0 ELSE -1]
    /\ grassCell = [g \in 1..ncells |-> g]
    /\ fully_grown = [g \in 1..ncells |-> TRUE]
    /\ \E r \in InitRegrowth : grass_regrowth_time = [g \in 1..ncells |-> r]
    /\ queue = <<>>
    /\ eatenAt = [g \in 1..ncells |-> -1]
    /\ eaten = [a \in Ids |-> 0]
    /\ lastStep = [a \in Ids |-> -1]
    /\ grave = [a \in Ids |-> NoGrave]
    /\ tr = NoTr

(* The state after construction of one Sheep (energy 8, p_reproduce 0,      *)
(* energy_from_food 4) and one grown GrassPatch (regrowth time 3) on a grid *)
(* of one cell                                                              *)
InitGrazing ==
    /\ scenario = "grazing"
    /\ ncells = 1
    /\ time = 0
    /\ pc = "idle"
    /\ order = <<>>
    /\ cell = [a \in Ids |-> IF a = 1 THEN 1 ELSE NoCell]
    /\ agents = [d \in 1..1 |-> {1}]
    /\ kind = [a \in Ids |-> IF a = 1 THEN "Sheep" ELSE "none"]
    /\ status = [a \in Ids |-> IF a = 1 THEN "alive" ELSE "unborn"]
    /\ energy = [a \in Ids |-> IF a = 1 THEN 8 * Unit ELSE 0]
    /\ p_reproduce = [a \in Ids |-> 0]
    /\ energy_from_food = [a \in Ids |-> IF a = 1 THEN 4 * Unit ELSE 0]
    /\ bornAt = [a \in Ids |-> IF a = 1 THEN 0 ELSE -1]
    /\ grassCell = [g \in 1..1 |-> g]
    /\ fully_grown = [g \in 1..1 |-> TRUE]
    /\ grass_regrowth_time = [g \in 1..1 |-> 3]
    /\ queue = <<>>
    /\ eatenAt = [g \in 1..1 |-> -1]
    /\ eaten = [a \in Ids |-> 0]
    /\ lastStep = [a \in Ids |-> -1]
    /\ grave = [a \in Ids |-> NoGrave]
    /\ tr = NoTr

Init == InitGeneral \/ InitWolfSheep \/ InitGrazing

(* The number of ticks run: the grazing scenario runs one tick more *)
Horizon == IF scenario = "grazing" THEN MaxTick + 1 ELSE MaxTick

----------------------------------------------------------------------------
(* Tick loop *)

AdvanceTime ==
    /\ pc = "idle"
    /\ time < Horizon
    /\ time' = time + 1
    /\ pc' = "fire"
    /\ tr' = NoTr
    /\ lastStep' = [a \in Ids |-> -1]
    /\ grave' = [a \in Ids |-> NoGrave]
    /\ bornAt' = [a \in Ids |-> IF status[a] = "unborn" THEN -1 ELSE 0]
    /\ eatenAt' = [g \in Patches |-> IF fully_grown[g] THEN -1 ELSE eatenAt[g]]
    /\ UNCHANGED <<scenario, ncells, order, kind, status, energy, cell, p_reproduce, energy_from_food,
                   agents, grassCell, fully_grown, grass_regrowth_time, queue, eaten>>

(* fire_due: pop every due event and apply it (setattr(patch, "fully_grown", True)) *)
FireDue ==
    /\ pc = "fire"
    /\ LET due == {i \in 1..Len(queue) : IsDue(queue[i])}
           hit == {queue[i].target : i \in due}
       IN /\ fully_grown' = [g \in Patches |-> IF g \in hit THEN TRUE ELSE fully_grown[g]]
          /\ queue' = SelectSeq(queue, IsPending)
    /\ pc' = "activate"
    /\ tr' = [NoTr EXCEPT !.op = "fire"]
    /\ UNCHANGED <<scenario, ncells, time, order, animalVars, grassCell, grass_regrowth_time,
                   eatenAt, eaten, lastStep>>

Perms(S) == {f \in [1..Cardinality(S) -> S] : \A i, j \in 1..Cardinality(S) : f[i] = f[j] => i = j}

(* activation_order: a fresh random permutation of the live animals *)
Activate ==
    /\ pc = "activate"
    /\ order' \in Perms(Alive)
    /\ pc' = "turn"
    /\ tr' = NoTr
    /\ UNCHANGED <<scenario, ncells, time, animalVars, grassVars, eaten, lastStep>>

(* Variant: a newly created agent joins the activation list of the tick *)
RestOfOrderWithChild(k) == Tail(order) \o (IF k # NoId THEN <<k>> ELSE <<>>)

(* The slots left once the slot in turn is done; an agent k created in the  *)
(* step is not added to the list already drawn for the tick                 *)
RestOfOrder(k) == Tail(order)

SkipDead ==
    /\ pc = "turn"
    /\ order # <<>>
    /\ status[Cur] # "alive"
    /\ order' = RestOfOrder(NoId)
    /\ tr' = [NoTr EXCEPT !.op = "skip", !.id = Cur]
    /\ UNCHANGED <<scenario, ncells, time, pc, animalVars, grassVars, eaten, lastStep>>

EndTick ==
    /\ pc = "turn"
    /\ order = <<>>
    /\ pc' = "idle"
    /\ tr' = NoTr
    /\ UNCHANGED <<scenario, ncells, time, order, animalVars, grassVars, eaten, lastStep>>

MyTurn(k) ==
    /\ pc = "turn"
    /\ order # <<>>
    /\ status[Cur] = "alive"
    /\ kind[Cur] = k


----------------------------------------------------------------------------
(* Agent store *)

Unborn == {a \in Ids : status[a] = "unborn"}
NewId == CHOOSE a \in Unborn : \A b \in Unborn : a <= b

(* Agent.remove: the agent is dead, has no cell, and its cell no longer holds it *)
RemovedStatus(st, a) == [st EXCEPT ![a] = "dead"]
RemovedCell(cl, a) == [cl EXCEPT ![a] = NoCell]
RemovedAgents(ag, a) == Vacate(ag, a)

----------------------------------------------------------------------------
(* Sheep.move and Wolf.move *)

HasWolf(c) == \E a \in agents[c] : IsWolf(a)
HasSheep(c) == \E a \in agents[c] : IsSheep(a)
HasGrownGrass(c) == \E g \in PatchesAt(c) : fully_grown[g]
NoWolf(c) == ~HasWolf(c)

(* Variant: the neighbourhood is not filtered for wolves *)
CellsAnyNeighbor(a) == Neighborhood(cell[a])

CellsWithoutWolves(a) == Select(Neighborhood(cell[a]), NoWolf)

(* Variant: a sheep draws from the wolf-free neighbour cells, grass or not *)
SheepTargetsNoGrass(a) == CellsWithoutWolves(a)

(* Variant: a sheep with no wolf-free neighbour cell draws from its whole neighbourhood *)
SheepTargetsNeverStay(a) ==
    LET cells_without_wolves == CellsWithoutWolves(a)
        cells_with_grass == Select(cells_without_wolves, HasGrownGrass)
    IN IF cells_without_wolves = {} THEN Neighborhood(cell[a])
       ELSE IF cells_with_grass # {} THEN cells_with_grass ELSE cells_without_wolves

(* The cells a sheep may end its move in; empty when it stays put *)
SheepTargets(a) ==
    LET cells_without_wolves == CellsWithoutWolves(a)
        cells_with_grass == Select(cells_without_wolves, HasGrownGrass)
    IN IF cells_without_wolves = {} THEN {}
       ELSE IF cells_with_grass # {} THEN cells_with_grass ELSE cells_without_wolves

(* Variant: a wolf draws from its whole neighbourhood, sheep or not *)
WolfTargetsAnyNeighbor(a) == Neighborhood(cell[a])

(* The cells a wolf draws its next cell from *)
WolfTargets(a) ==
    LET cells_with_sheep == Select(Neighborhood(cell[a]), HasSheep)
    IN IF cells_with_sheep # {} THEN cells_with_sheep ELSE Neighborhood(cell[a])

StartStep(a, op) == [NoTr EXCEPT !.op = op, !.id = a, !.from = cell[a]]

SheepMove ==
    /\ MyTurn("Sheep")
    /\ LET a == Cur
           target_cells == SheepTargets(a)
       IN IF target_cells = {}
          THEN /\ tr' = StartStep(a, "stay")
               /\ UNCHANGED <<cell, agents>>
          ELSE \E c \in target_cells :
                  /\ cell' = [cell EXCEPT ![a] = c]
                  /\ agents' = MoveTo(agents, a, c)
                  /\ tr' = StartStep(a, "move")
    /\ pc' = "metab"
    /\ lastStep' = [lastStep EXCEPT ![Cur] = time]
    /\ UNCHANGED <<scenario, ncells, time, order, kind, status, energy, p_reproduce,
                   energy_from_food, bornAt, grave, grassVars, eaten>>

WolfMove ==
    /\ MyTurn("Wolf")
    /\ LET a == Cur
       IN \E c \in WolfTargets(a) :
             /\ cell' = [cell EXCEPT ![a] = c]
             /\ agents' = MoveTo(agents, a, c)
             /\ tr' = StartStep(a, "move")
    /\ pc' = "metab"
    /\ lastStep' = [lastStep EXCEPT ![Cur] = time]
    /\ UNCHANGED <<scenario, ncells, time, order, kind, status, energy, p_reproduce,
                   energy_from_food, bornAt, grave, grassVars, eaten>>

(* select_random_cell on an empty collection raises: the run ends *)
WolfMoveFails ==
    /\ MyTurn("Wolf")
    /\ WolfTargets(Cur) = {}
    /\ pc' = "crashed"
    /\ tr' = StartStep(Cur, "empty_selection")
    /\ UNCHANGED <<scenario, ncells, time, order, animalVars, grassVars, eaten, lastStep>>

----------------------------------------------------------------------------
(* Animal.step: energy -= 1 *)

(* Variant: a step costs no energy *)
MetabolizedFree(e) == e

(* self.energy -= 1 *)
Metabolized(e) == e - Unit

Metabolize ==
    /\ pc = "metab"
    /\ energy' = [energy EXCEPT ![Cur] = Metabolized(@)]
    /\ tr' = [tr EXCEPT !.eMetab = energy'[Cur]]
    /\ pc' = "feed"
    /\ UNCHANGED <<scenario, ncells, time, order, kind, status, cell, p_reproduce,
                   energy_from_food, agents, bornAt, grave, grassVars, eaten, lastStep>>

----------------------------------------------------------------------------
(* Sheep.feed and Wolf.feed *)

(* Variant: the sheep eats whatever the state of the patch *)
SheepEatsAlways(g) == g = g

(* Whether a sheep eats patch g *)
SheepEats(g) == fully_grown[g]

SheepFeed ==
    /\ pc = "feed"
    /\ IsSheep(Cur)
    /\ LET a == Cur
           grass_patch == CHOOSE g \in PatchesAt(cell[a]) : TRUE
       IN /\ PatchesAt(cell[a]) # {}
          /\ IF SheepEats(grass_patch)
             THEN /\ energy' = [energy EXCEPT ![a] = @ + energy_from_food[a]]
                  /\ fully_grown' = [fully_grown EXCEPT ![grass_patch] = FALSE]
                  /\ queue' = SetterQueue(queue, grass_patch, FALSE)
                  /\ eatenAt' = [eatenAt EXCEPT ![grass_patch] = time]
                  /\ tr' = [tr EXCEPT !.op = "grazed", !.fed = TRUE]
             ELSE /\ UNCHANGED <<energy, fully_grown, queue, eatenAt>>
                  /\ tr' = [tr EXCEPT !.op = "no_food"]
    /\ pc' = "resolve"
    /\ UNCHANGED <<scenario, ncells, time, order, kind, status, cell, p_reproduce,
                   energy_from_food, agents, bornAt, grave, grassCell, grass_regrowth_time,
                   eaten, lastStep>>

(* Variant: every sheep of the model that is not at another cell is a candidate *)
SheepAtStale(a) == {s \in Ids : IsSheep(s) /\ cell[s] \in {cell[a], NoCell}}

(* Variant: every occupant of the cell is a candidate, whatever its kind *)
SheepAtAny(a) == agents[cell[a]]

(* The sheep a wolf may pick at its cell *)
SheepAt(a) == {s \in agents[cell[a]] : IsSheep(s)}

(* The energy of wolf a after feeding, given whether it ate *)
WolfFedEnergy(a, ate) == IF ate THEN energy[a] + energy_from_food[a] ELSE energy[a]

WolfFeed ==
    /\ pc = "feed"
    /\ IsWolf(Cur)
    /\ LET a == Cur
           sheep == SheepAt(a)
       IN IF sheep # {}
          THEN \E sheep_to_eat \in sheep :
                  /\ energy' = [energy EXCEPT ![a] = WolfFedEnergy(a, TRUE)]
                  /\ status' = RemovedStatus(status, sheep_to_eat)
                  /\ cell' = RemovedCell(cell, sheep_to_eat)
                  /\ agents' = RemovedAgents(agents, sheep_to_eat)
                  /\ eaten' = [eaten EXCEPT ![sheep_to_eat] = @ + 1]
                  /\ grave' = Buried(grave, sheep_to_eat)
                  /\ tr' = [tr EXCEPT !.op = "ate", !.fed = TRUE, !.prey = sheep_to_eat]
          ELSE /\ energy' = [energy EXCEPT ![a] = WolfFedEnergy(a, FALSE)]
               /\ UNCHANGED <<status, cell, agents, eaten, grave>>
               /\ tr' = [tr EXCEPT !.op = "no_food"]
    /\ pc' = "resolve"
    /\ UNCHANGED <<scenario, ncells, time, order, kind, p_reproduce, energy_from_food,
                   bornAt, grassVars, lastStep>>

----------------------------------------------------------------------------
(* Animal.step: handle death and reproduction; Animal.spawn_offspring *)

(* Variant: an animal left with exactly no energy is removed as well *)
DiesAtZero(a) == energy[a] <= 0
Dies(a) == energy[a] < 0

(* Variant: the reproduction draw is evaluated whether or not the animal died *)
ReproducesAnyway(a, u) == u < p_reproduce[a]
Reproduces(a, u) == ~Dies(a) /\ u < p_reproduce[a]

(* Variant: the halving keeps whole units of energy only *)
HalvedWhole(e) == (e \div (2 * Unit)) * Unit

(* Variant: the offspring is created without a cell *)
ChildCellNone(a) == NoCell

(* The cell passed to the new instance: self.cell *)
ChildCell(a) == cell[a]

(* self.energy /= 2 *)
Halved(e) == e \div 2

Resolve ==
    /\ pc = "resolve"
    /\ \E u \in 0..(PScale - 1) :
          LET a == Cur
              d == Dies(a)
              r == Reproduces(a, u)
              k == IF r /\ Unborn # {} THEN NewId ELSE NoId
              at == ChildCell(a)
              half == Halved(energy[a])
          IN /\ r => Unborn # {}
             /\ status' = [x \in Ids |-> IF x = k THEN "alive"
                                         ELSE IF x = a /\ d THEN "dead" ELSE status[x]]
             /\ energy' = [x \in Ids |-> IF r /\ x \in {a, k} THEN half ELSE energy[x]]
             /\ kind' = [x \in Ids |-> IF x = k THEN kind[a] ELSE kind[x]]
             /\ p_reproduce' = [x \in Ids |-> IF x = k THEN p_reproduce[a] ELSE p_reproduce[x]]
             /\ energy_from_food' =
                   [x \in Ids |-> IF x = k THEN energy_from_food[a] ELSE energy_from_food[x]]
             /\ cell' = [x \in Ids |-> IF x = k THEN at
                                       ELSE IF x = a /\ d THEN NoCell ELSE cell[x]]
             /\ agents' = [c \in Cells |->
                             ((IF d THEN agents[c] \ {a} ELSE agents[c])
                              \cup (IF r /\ c = at THEN {k} ELSE {}))]
             /\ bornAt' = [x \in Ids |-> IF x = k THEN time ELSE bornAt[x]]
             /\ grave' = IF d THEN Buried(grave, a) ELSE grave
             /\ order' = RestOfOrder(k)
             /\ tr' = [tr EXCEPT !.op = IF d /\ r THEN "died_and_spawned"
                                        ELSE IF d THEN "died"
                                        ELSE IF r THEN "spawned" ELSE "survived",
                                 !.eResolve = energy[a], !.child = k]
    /\ pc' = "turn"
    /\ UNCHANGED <<scenario, ncells, time, grassVars, eaten, lastStep>>

----------------------------------------------------------------------------
Next ==
    \/ AdvanceTime
    \/ FireDue
    \/ Activate
    \/ SkipDead
    \/ EndTick
    \/ SheepMove
    \/ WolfMove
    \/ WolfMoveFails
    \/ Metabolize
    \/ SheepFeed
    \/ WolfFeed
    \/ Resolve

Spec == Init /\ [][Next]_vars

----------------------------------------------------------------------------
(* Properties *)

ResolveOps == {"died", "spawned", "survived", "died_and_spawned"}
Resolved == pc = "turn" /\ tr.op \in ResolveOps
Housed(a) == \E c \in Cells : a \in agents[c]
Removed(a) == status[a] = "dead" /\ cell[a] = NoCell /\ ~Housed(a)

(* C1: death takes priority over reproduction. An animal whose energy is   *)
(* negative at the resolve point of its step is removed and creates no     *)
(* offspring in that step, whatever the draw and whatever p_reproduce is;  *)
(* no offspring is ever created by a parent holding negative energy.       *)
C1_DeathPriority ==
    Resolved =>
        /\ tr.eResolve < 0 => Removed(tr.id) /\ tr.child = NoId
        /\ tr.child # NoId => tr.eResolve >= 0 /\ status[tr.id] = "alive"

(* C1 witness: an animal died holding negative energy although its         *)
(* reproduction probability is 1, so that every draw would have triggered. *)
C1_Witness ==
    /\ Resolved
    /\ tr.op = "died"
    /\ tr.eResolve < 0
    /\ p_reproduce[tr.id] = PScale
    /\ Unborn # {}

(* C2 as stated: an animal whose energy is negative right after the        *)
(* metabolism decrement is removed by the end of that step, whatever food  *)
(* is at its cell.                                                         *)
C2_Original ==
    Resolved /\ tr.eMetab < 0 => Removed(tr.id)

(* C2: an animal is removed at the end of its step exactly when its energy *)
(* is negative at the resolve point, that is after the metabolism          *)
(* decrement and after feeding; an animal left negative by metabolism is   *)
(* removed when it did not feed, and survives when feeding lifts its       *)
(* energy to zero or more.                                                 *)
C2_RemovedWhenNegativeAfterFeed ==
    Resolved =>
        /\ Removed(tr.id) <=> tr.eResolve < 0
        /\ tr.eResolve = tr.eMetab + (IF tr.fed THEN energy_from_food[tr.id] ELSE 0)
        /\ tr.eMetab < 0 /\ ~tr.fed => Removed(tr.id)

(* C2 witness: a sheep on a patch without grown grass starved.             *)
C2_Witness ==
    /\ Resolved
    /\ IsSheep(tr.id)
    /\ tr.eMetab < 0
    /\ ~tr.fed
    /\ Removed(tr.id)

(* The tick at which a patch eaten at tick t regrows *)
RegrowthTick(g) == eatenAt[g] + grass_regrowth_time[g]
Growing(g, due) == time < due \/ (time = due /\ pc = "fire")

(* C3 as stated: for every regrowth time r >= 0, a patch eaten at tick t   *)
(* is not fully grown before tick t + r and is fully grown from the event  *)
(* firing of tick t + r on (until it is eaten again).                      *)
C3_Original ==
    \A g \in Patches : eatenAt[g] >= 1 =>
        (~fully_grown[g] <=> Growing(g, RegrowthTick(g)))

(* C3: for every regrowth time r >= 1, a patch eaten at tick t is not      *)
(* fully grown before tick t + r and is fully grown from the event firing  *)
(* of tick t + r on; with r = 0 it stays not grown for the rest of tick t  *)
(* and is fully grown from the event firing of tick t + 1 on.              *)
C3_RegrowthTiming ==
    \A g \in Patches : eatenAt[g] >= 1 =>
        LET r == grass_regrowth_time[g]
            due == IF r >= 1 THEN eatenAt[g] + r ELSE eatenAt[g] + 1
        IN ~fully_grown[g] <=> Growing(g, due)

(* C3 witness: a patch with regrowth time 2 is grown again two ticks after *)
(* it was eaten, when the activation order is about to be drawn.           *)
C3_Witness ==
    \E g \in Patches :
        /\ eatenAt[g] >= 1
        /\ grass_regrowth_time[g] = 2
        /\ time = eatenAt[g] + 2
        /\ pc = "activate"
        /\ fully_grown[g]

(* C4: each sheep is eaten at most once and an eaten sheep is in no cell;  *)
(* a wolf's feed gains energy_from_food exactly when it removes a sheep,   *)
(* which was a sheep at the wolf's cell; a feed removes at most one        *)
(* animal.                                                                 *)
C4_Eaten ==
    /\ \A s \in Ids : eaten[s] <= 1 /\ (eaten[s] = 1 => IsSheep(s) /\ Removed(s))
    /\ pc = "resolve" /\ IsWolf(Cur) =>
          /\ energy[Cur] = tr.eMetab + (IF tr.prey # NoId THEN energy_from_food[Cur] ELSE 0)
          /\ tr.fed <=> tr.prey # NoId
          /\ tr.prey # NoId =>
                /\ IsSheep(tr.prey)
                /\ Removed(tr.prey)
                /\ grave[tr.prey] = [tick |-> time, cell |-> cell[Cur]]

C4_OnePerFeed ==
    [][pc = "feed" /\ IsWolf(Cur) =>
          /\ Cardinality(Alive \ Alive') <= 1
          /\ Alive' \subseteq Alive
          /\ energy'[Cur] - energy[Cur] =
                (IF Alive' # Alive THEN energy_from_food[Cur] ELSE 0)]_vars

C4_FeedingExclusivity == []C4_Eaten /\ C4_OnePerFeed

(* C4 witness: a wolf has fed at a cell where a sheep was eaten earlier in *)
(* the same tick, and found no sheep there.                                *)
C4_Witness ==
    /\ pc = "resolve"
    /\ IsWolf(Cur)
    /\ tr.prey = NoId
    /\ \E s \in Ids : eaten[s] = 1 /\ grave[s] = [tick |-> time, cell |-> cell[Cur]]

(* C5: a sheep whose neighbourhood has a cell without wolves ends its move *)
(* in a neighbour cell that holds no wolf.                                 *)
C5_SheepSafety ==
    pc = "metab" /\ IsSheep(Cur) =>
        LET safe == {d \in Neighborhood(tr.from) : NoWolf(d)}
        IN safe # {} =>
              /\ cell[Cur] \in safe
              /\ cell[Cur] # tr.from
              /\ Cur \in agents[cell[Cur]]

(* C5 witness: a sheep with a wolf in one neighbour cell and none in       *)
(* another has moved.                                                      *)
C5_Witness ==
    /\ pc = "metab"
    /\ IsSheep(Cur)
    /\ tr.op = "move"
    /\ \E d \in Neighborhood(tr.from) : HasWolf(d)
    /\ \E d \in Neighborhood(tr.from) : NoWolf(d)

(* C6: after an animal holding E at the resolve point reproduces, parent   *)
(* and child each hold E/2, summing to E; the child has the parent's kind, *)
(* cell, p_reproduce and energy_from_food; exactly one animal is created   *)
(* and nothing else changes.                                               *)
C6_Split ==
    Resolved /\ tr.child # NoId =>
        LET a == tr.id
            k == tr.child
        IN /\ 2 * energy[a] = tr.eResolve
           /\ 2 * energy[k] = tr.eResolve
           /\ energy[a] + energy[k] = tr.eResolve
           /\ status[k] = "alive"
           /\ kind[k] = kind[a]
           /\ cell[k] = cell[a]
           /\ cell[k] \in Cells
           /\ k \in agents[cell[k]]
           /\ p_reproduce[k] = p_reproduce[a]
           /\ energy_from_food[k] = energy_from_food[a]

C6_Frame ==
    [][pc = "resolve" /\ Unborn' # Unborn =>
          LET a == Cur
              born == Unborn \ Unborn'
          IN /\ Cardinality(born) = 1
             /\ Unborn' \subseteq Unborn
             /\ \A x \in Ids \ born :
                   /\ status'[x] = status[x]
                   /\ kind'[x] = kind[x]
                   /\ cell'[x] = cell[x]
                   /\ p_reproduce'[x] = p_reproduce[x]
                   /\ energy_from_food'[x] = energy_from_food[x]
                   /\ x # a => energy'[x] = energy[x]
             /\ \A c \in Cells :
                   agents'[c] = (IF c = cell[a] THEN agents[c] \cup born ELSE agents[c])
             /\ UNCHANGED <<scenario, ncells, time, grassCell, fully_grown, grass_regrowth_time, queue>>]_vars

C6_EnergySplit == []C6_Split /\ C6_Frame

(* C6 witness: an animal holding exactly 1 reproduced, leaving 1/2 each.   *)
C6_Witness ==
    /\ Resolved
    /\ tr.op = "spawned"
    /\ tr.eResolve = Unit
    /\ energy[tr.child] * 2 = Unit

AgentPhase == pc \in {"turn", "metab", "feed", "resolve"}
QueueIndices == 1..Len(queue)

(* C7 as stated: once the agents of a tick act, no patch is waiting for an *)
(* event whose due time is at or before the current time: a sheep that     *)
(* finds the patch of its cell not grown finds no event for that patch     *)
(* that is already due.                                                    *)
C7_Original ==
    /\ pc = "activate" => \A i \in QueueIndices : queue[i].due > time
    /\ pc = "feed" /\ IsSheep(Cur) =>
          \A g \in PatchesAt(cell[Cur]) : ~fully_grown[g] =>
              \A i \in Pending(g) : queue[i].due > time

(* C7: every event due at or before the new current time is fired before  *)
(* the first agent of the tick acts; while the agents act, an event that   *)
(* is already due was scheduled in this very tick by a patch with regrowth *)
(* time 0, so no animal observes a patch as not grown after its regrowth   *)
(* due time, nor at its due time when the regrowth time is 1 or more.      *)
C7_EventsBeforeAgents ==
    /\ pc = "activate" => \A i \in QueueIndices : queue[i].due > time
    /\ AgentPhase =>
          \A i \in QueueIndices : queue[i].due <= time =>
              /\ queue[i].due = time
              /\ grass_regrowth_time[queue[i].target] = 0
              /\ eatenAt[queue[i].target] = time
              /\ ~fully_grown[queue[i].target]

(* C7 witness: a sheep is about to feed on a patch that regrew in the      *)
(* event firing of this tick.                                              *)
C7_Witness ==
    /\ pc = "feed"
    /\ IsSheep(Cur)
    /\ \E g \in PatchesAt(cell[Cur]) :
          /\ fully_grown[g]
          /\ eatenAt[g] >= 1
          /\ time = RegrowthTick(g)
          /\ grass_regrowth_time[g] >= 1

(* C8: a removed animal never acts again: the animal whose step is in      *)
(* progress is alive, an animal removed in an earlier tick takes no step   *)
(* in the current one, a removed animal is in no cell, and it stays dead.  *)
C8_DeadInert ==
    /\ InStep => status[Cur] = "alive"
    /\ \A a \in Ids : status[a] = "dead" =>
          /\ Removed(a)
          /\ grave[a].tick \in {-1, time}
          /\ grave[a].tick = -1 => lastStep[a] = -1
    /\ \A c \in Cells : agents[c] \subseteq Alive

C8_DeadTerminal ==
    [][\A a \in Ids : status[a] = "dead" => status'[a] = "dead"]_vars

C8_RemovedNeverActs == []C8_DeadInert /\ C8_DeadTerminal

(* C8 witness: the slot of a sheep that was eaten before its turn has been *)
(* skipped, and the tick went on.                                          *)
C8_Witness ==
    /\ pc = "turn"
    /\ tr.op = "skip"
    /\ eaten[tr.id] = 1
    /\ grave[tr.id].tick = time
    /\ lastStep[tr.id] < time

(* C9: an animal created during a tick is in its parent's cell at once but *)
(* takes no step in that tick; every animal that is alive at the end of a  *)
(* tick and was created before it has taken its step in that tick.         *)
C9_NoStepWhenBorn ==
    /\ \A a \in Ids : bornAt[a] >= 1 => bornAt[a] = time /\ lastStep[a] = -1
    /\ InStep => bornAt[Cur] < time
    /\ AgentPhase => \A i \in 1..Len(order) : bornAt[order[i]] < time
    /\ Resolved /\ tr.child # NoId =>
          /\ bornAt[tr.child] = time
          /\ cell[tr.child] = cell[tr.id]
          /\ tr.child \in agents[cell[tr.id]]
    /\ pc = "idle" /\ time >= 1 =>
          \A a \in Alive : bornAt[a] < time => lastStep[a] = time

(* C9 witness: a wolf has eaten a sheep that was created earlier in the    *)
(* same tick.                                                              *)
C9_Witness ==
    /\ pc = "resolve"
    /\ tr.prey # NoId
    /\ bornAt[tr.prey] = time
    /\ lastStep[tr.prey] = -1

(* C10: the queue never holds more than one pending regrowth event for a   *)
(* patch.                                                                  *)
C10_OnePendingEvent ==
    \A g \in Patches : Cardinality(Pending(g)) <= 1

(* C10 witness: a sheep tried to feed on a patch that is not grown and has *)
(* its one regrowth event pending.                                         *)
C10_Witness ==
    /\ pc = "resolve"
    /\ IsSheep(Cur)
    /\ tr.op = "no_food"
    /\ \E g \in PatchesAt(cell[Cur]) : ~fully_grown[g] /\ Cardinality(Pending(g)) = 1

(* ------------------------------------------------------------------ *)
(* Cells and their occupants                                           *)
(* ------------------------------------------------------------------ *)

(* The cells whose occupant set holds animal a *)
CellsHolding(a) == {c \in Cells : a \in agents[c]}

(* C11: cells and animals agree in both directions. Every live animal has  *)
(* exactly one current cell, the occupant set of that cell contains it and *)
(* no other cell's does; no occupant set contains a removed (or not yet    *)
(* created) animal; every grass patch is in the cell it was created in,    *)
(* and every cell holds at most one grass patch.                           *)
C11_CellAgentConsistency ==
    /\ \A a \in Alive : cell[a] \in Cells /\ CellsHolding(a) = {cell[a]}
    /\ \A a \in Ids \ Alive : cell[a] = NoCell /\ CellsHolding(a) = {}
    /\ \A c \in Cells : agents[c] \subseteq Alive
    /\ \A g \in Patches : grassCell[g] = g
    /\ \A c \in Cells : Cardinality(PatchesAt(c)) <= 1

(* C11 witness: in one tick an animal has moved to another cell, an        *)
(* animal has been removed and an offspring has been placed.               *)
C11_Witness ==
    /\ Resolved
    /\ tr.op = "spawned"
    /\ cell[tr.id] # tr.from
    /\ \E a \in Ids : grave[a].tick = time

(* ------------------------------------------------------------------ *)
(* A wolf and a sheep created in the same cell                         *)
(* ------------------------------------------------------------------ *)

(* In the wolf and sheep scenario animal 1 is the Wolf, animal 2 the Sheep; *)
(* during tick 1 the activation order was [Wolf, Sheep] exactly when the    *)
(* remaining slots are <<1, 2>> (the wolf is in turn) or <<2>> (its step is *)
(* over).                                                                   *)
WolfInTurnFirst == scenario = "wolf_sheep" /\ time = 1 /\ order = <<1, 2>>
WolfWentFirst == scenario = "wolf_sheep" /\ time = 1 /\ order = <<2>>

(* C12: a Wolf (energy 5, energy_from_food 4) and a Sheep (energy 5) start *)
(* in the same cell and the order of tick 1 is [Wolf, Sheep]. The wolf's   *)
(* step runs to its end; after it the wolf has metabolized to 4 and has    *)
(* eaten the sheep to reach 8, the sheep is removed and has not taken its  *)
(* turn, so that one live Wolf with energy 8 and no Sheep remain.          *)
C12_WolfEatsColocatedSheep ==
    /\ WolfInTurnFirst => pc # "crashed"
    /\ WolfWentFirst =>
          /\ tr.id = 1
          /\ tr.eMetab = 4 * Unit
          /\ energy[1] = 8 * Unit
          /\ Removed(2)
          /\ lastStep[2] = -1
          /\ Alive = {1}

(* ------------------------------------------------------------------ *)
(* Guard before choose                                                 *)
(* ------------------------------------------------------------------ *)

(* C13: no step of an animal draws a random cell from an empty set of      *)
(* cells. On every grid, the one-cell grid with its empty neighbourhoods   *)
(* included, a step that finds no cell to go to stays where it is through  *)
(* an explicit branch and goes on to metabolize; a feed that finds nothing *)
(* to eat leaves the energy as it is; no step ends the run with an error.  *)
C13_GuardBeforeChoose ==
    /\ pc # "crashed"
    /\ tr.op # "empty_selection"
    /\ pc = "metab" /\ Neighborhood(tr.from) = {} => tr.op = "stay" /\ cell[Cur] = tr.from
    /\ pc = "resolve" /\ tr.op = "no_food" => energy[Cur] = tr.eMetab

(* ------------------------------------------------------------------ *)
(* A sheep grazing alone on a grid of one cell                         *)
(* ------------------------------------------------------------------ *)

(* The states of a tick that come before the feed of the only sheep *)
BeforeFeed == pc \in {"activate", "metab", "feed"} \/ (pc = "turn" /\ order # <<>>)

(* C14: one Sheep (energy 8, p_reproduce 0, energy_from_food 4) and one    *)
(* grown GrassPatch (regrowth time 3) on a grid of one cell. The sheep's   *)
(* energy at the end of ticks 1, 2, 3, 4 is 11, 10, 9, 12. The patch is    *)
(* not grown from the feed of tick 1 until its regrowth event, scheduled   *)
(* for tick 4, fires at tick 4 before the sheep acts. The sheep feeds in   *)
(* ticks 1 and 4 and in no other of these ticks, and it never moves.       *)
C14_GrazingScenario ==
    scenario = "grazing" /\ time <= 4 =>
        /\ status[1] = "alive"
        /\ cell[1] = 1 /\ agents[1] = {1}
        /\ pc = "metab" => tr.op = "stay"
        /\ pc = "idle" /\ time = 1 => energy[1] = 11 * Unit
        /\ pc = "idle" /\ time = 2 => energy[1] = 10 * Unit
        /\ pc = "idle" /\ time = 3 => energy[1] = 9 * Unit
        /\ pc = "idle" /\ time = 4 => energy[1] = 12 * Unit
        /\ pc = "resolve" => (tr.fed <=> time \in {1, 4})
        /\ time \in {1, 4} /\ BeforeFeed => fully_grown[1] /\ queue = <<>>
        /\ time = 1 /\ ~BeforeFeed /\ pc # "fire" => ~fully_grown[1] /\ queue = <<Event(4, 1)>>
        /\ time \in {2, 3} => ~fully_grown[1] /\ queue = <<Event(4, 1)>>
        /\ time = 4 /\ pc = "fire" => ~fully_grown[1] /\ queue = <<Event(4, 1)>>

(* C14 witness: the grazing scenario has reached the end of tick 4 with    *)
(* the sheep at energy 12, the patch eaten again.                          *)
C14_Witness ==
    /\ scenario = "grazing"
    /\ time = 4
    /\ pc = "idle"
    /\ energy[1] = 12 * Unit
    /\ ~fully_grown[1]

(* ------------------------------------------------------------------ *)
(* Where a wolf goes                                                   *)
(* ------------------------------------------------------------------ *)

(* Whether cell c holds a wolf other than animal a *)
HasOtherWolf(c, a) == \E w \in agents[c] \ {a} : IsWolf(w)

(* C16: a wolf that has moved from a cell with a non-empty neighbourhood   *)
(* is in one of the neighbour cells of the cell it came from, never in     *)
(* that cell itself; if at least one of those neighbour cells holds a      *)
(* sheep, the cell it is in holds a sheep. Cells holding other wolves are  *)
(* not avoided: the wolf may be in any neighbour cell holding a sheep, and *)
(* without sheep around in any neighbour cell.                             *)
C16_WolfMovePreference ==
    pc = "metab" /\ IsWolf(Cur) /\ Neighborhood(tr.from) # {} =>
        LET near == Neighborhood(tr.from)
        IN /\ tr.op = "move"
           /\ cell[Cur] \in near
           /\ cell[Cur] # tr.from
           /\ Cur \in agents[cell[Cur]]
           /\ (\E d \in near : HasSheep(d)) => HasSheep(cell[Cur])

(* C16 witness: a wolf with two neighbour cells, one holding a sheep and   *)
(* one holding none, has moved to the one with the sheep.                  *)
C16_Witness ==
    /\ pc = "metab"
    /\ IsWolf(Cur)
    /\ HasSheep(cell[Cur])
    /\ \E d \in Neighborhood(tr.from) : ~HasSheep(d)

(* A wolf has moved into a cell holding another wolf although a neighbour  *)
(* cell without wolves was at hand.                                        *)
WolfJoinsWolf ==
    /\ pc = "metab"
    /\ IsWolf(Cur)
    /\ HasOtherWolf(cell[Cur], Cur)
    /\ \E d \in Neighborhood(tr.from) : NoWolf(d)

(* ------------------------------------------------------------------ *)
(* Where a sheep goes                                                  *)
(* ------------------------------------------------------------------ *)

(* The wolf-free neighbour cells of cell c, and those of them with grown grass *)
SafeNear(c) == {d \in Neighborhood(c) : NoWolf(d)}
GrassyNear(c) == {d \in SafeNear(c) : HasGrownGrass(d)}

(* C17: if at least one wolf-free neighbour cell of the cell a sheep moves *)
(* from has a fully grown patch, the sheep ends in a wolf-free neighbour   *)
(* cell with grown grass; it ends in a wolf-free neighbour cell without    *)
(* grown grass only when no wolf-free neighbour cell has grown grass.      *)
C17_SheepGrassPreference ==
    pc = "metab" /\ IsSheep(Cur) =>
        /\ GrassyNear(tr.from) # {} => tr.op = "move" /\ cell[Cur] \in GrassyNear(tr.from)
        /\ cell[Cur] \in SafeNear(tr.from) \ GrassyNear(tr.from) => GrassyNear(tr.from) = {}

(* C17 witness: a sheep with two wolf-free neighbour cells, one with grown *)
(* grass and one without, has moved to the one with grown grass.           *)
C17_Witness ==
    /\ pc = "metab"
    /\ IsSheep(Cur)
    /\ cell[Cur] \in GrassyNear(tr.from)
    /\ SafeNear(tr.from) \ GrassyNear(tr.from) # {}

(* A sheep has moved to a wolf-free neighbour cell without grown grass *)
SheepMovesToBareCell ==
    /\ pc = "metab"
    /\ IsSheep(Cur)
    /\ cell[Cur] \in SafeNear(tr.from) \ GrassyNear(tr.from)

(* ------------------------------------------------------------------ *)
(* A sheep with nowhere to go                                          *)
(* ------------------------------------------------------------------ *)

(* The sheep in turn is about to move and has no wolf-free neighbour cell *)
CorneredAtMove == MyTurn("Sheep") /\ SafeNear(cell[Cur]) = {}

(* The sheep in turn has stayed in its cell for want of a wolf-free neighbour cell *)
CorneredInStep == IsSheep(Cur) /\ tr.op = "stay" /\ SafeNear(cell[Cur]) = {}

(* The grass patch of the cell of animal a *)
PatchOf(a) == CHOOSE g \in Patches : grassCell[g] = cell[a]

(* C18: when every neighbour cell of a sheep holds a wolf, or it has no    *)
(* neighbour cell, its move leaves its cell and every occupant set as they *)
(* are and raises no error, and the rest of its step runs as usual: it     *)
(* loses 1 energy, then feeds when the patch of its cell is fully grown    *)
(* (gaining energy_from_food and leaving the patch not grown) and leaves   *)
(* its energy alone when it is not, and comes to the resolve point.        *)
C18_CorneredSheepStays ==
    [][ /\ CorneredAtMove =>
              /\ pc' = "metab"
              /\ tr'.op = "stay"
              /\ cell' = cell
              /\ agents' = agents
        /\ pc = "metab" /\ CorneredInStep =>
              /\ pc' = "feed"
              /\ energy'[Cur] = energy[Cur] - Unit
        /\ pc = "feed" /\ CorneredInStep =>
              /\ pc' = "resolve"
              /\ IF fully_grown[PatchOf(Cur)]
                 THEN /\ energy'[Cur] = energy[Cur] + energy_from_food[Cur]
                      /\ ~fully_grown'[PatchOf(Cur)]
                 ELSE /\ energy'[Cur] = energy[Cur]
                      /\ fully_grown' = fully_grown
      ]_vars

(* C18 witness: a sheep whose only neighbour cells hold wolves has stayed  *)
(* in its cell, has lost 1 energy and has eaten the grown grass there.     *)
C18_Witness ==
    /\ pc = "resolve"
    /\ IsSheep(Cur)
    /\ tr.op = "grazed"
    /\ cell[Cur] = tr.from
    /\ Neighborhood(tr.from) # {}
    /\ SafeNear(tr.from) = {}
    /\ energy[Cur] = tr.eMetab + energy_from_food[Cur]

(* ------------------------------------------------------------------ *)
(* The grass automaton and its regrowth event                          *)
(* ------------------------------------------------------------------ *)

(* The regrowth events of patch g that are due *)
DuePending(g) == {i \in Pending(g) : IsDue(queue[i])}

(* C19: a patch is not fully grown exactly when one regrowth event aimed   *)
(* at it is pending, and a fully grown patch has no pending event. A sheep *)
(* feeding on a patch that is not grown changes neither its energy, nor    *)
(* the patch, nor the queue. Every patch that was eaten or created with a  *)
(* countdown therefore becomes fully grown again while ticks are run: the  *)
(* firing of a tick makes every patch with a due event fully grown and     *)
(* takes its event off the queue, so that no event is due once a tick has  *)
(* fired, and an event is never overdue by more than the one tick in which *)
(* it was scheduled with delay 0.                                          *)
C19_GrownIffNoPendingEvent ==
    /\ [](\A g \in Patches :
             Cardinality(Pending(g)) = (IF fully_grown[g] THEN 0 ELSE 1))
    /\ [](\A i \in QueueIndices :
             /\ pc = "activate" => queue[i].due > time
             /\ pc # "fire" => queue[i].due >= time
             /\ pc = "fire" => queue[i].due >= time - 1)
    /\ [][ /\ pc = "feed" /\ IsSheep(Cur) /\ ~fully_grown[PatchOf(Cur)] =>
                 /\ energy' = energy
                 /\ fully_grown' = fully_grown
                 /\ queue' = queue
           /\ pc = "fire" =>
                 \A g \in Patches : DuePending(g) # {} =>
                    /\ fully_grown'[g]
                    /\ \A j \in 1..Len(queue') : queue'[j].target # g
         ]_vars

(* C19 witness: a patch that a sheep had eaten has been made fully grown   *)
(* again by the firing of its event, which has left the queue.             *)
C19_Witness ==
    /\ pc = "activate"
    /\ tr.op = "fire"
    /\ \E g \in Patches : fully_grown[g] /\ eatenAt[g] >= 0 /\ Pending(g) = {}

(* ------------------------------------------------------------------ *)
(* Wolves without sheep                                                *)
(* ------------------------------------------------------------------ *)

NoSheepAlive == \A a \in Alive : ~IsSheep(a)
LiveWolves == {a \in Alive : IsWolf(a)}

(* The slots of the current tick in which the metabolism is still to come *)
StillToMetabolize ==
    IF pc \in {"feed", "resolve"} THEN {order[i] : i \in 2..Len(order)}
    ELSE {order[i] : i \in 1..Len(order)}

(* 1 when wolf w has its metabolism of the current tick still before it *)
StepsLeftNow(w) ==
    IF pc \in {"fire", "activate"} \/ w \in StillToMetabolize THEN 1 ELSE 0

(* floor of an energy, in whole units *)
Floor(e) == e \div Unit

(* The tick in which wolf w, never feeding again, leaves a step with       *)
(* negative energy                                                         *)
DeathTick(w) == time + Floor(energy[w]) + 1 - StepsLeftNow(w)

(* The latest such tick over the live wolves: at a tick boundary it is the *)
(* current time plus floor(max wolf energy) + 1                            *)
Doom == CHOOSE t \in {DeathTick(w) : w \in LiveWolves} :
            \A w \in LiveWolves : DeathTick(w) <= t

(* C20: from any state with no Sheep alive, no Sheep ever appears again    *)
(* and the wolves are gone within floor(max wolf energy) + 1 ticks,        *)
(* whatever p_reproduce and the draws are. Every wolf step runs to its     *)
(* end, lowers the wolf's energy by 1 and feeds on nothing; an offspring   *)
(* holds no more energy than its parent did, so the tick by which the last *)
(* wolf is gone never moves later; a wolf is removed in the first step     *)
(* that leaves its energy negative, and a wolf whose energy is exactly 0   *)
(* at the resolve point is not removed in that step.                       *)
C20_WolvesDieOut ==
    /\ [](NoSheepAlive => pc # "crashed")
    /\ [](NoSheepAlive => \A w \in LiveWolves : DeathTick(w) >= time)
    /\ [][ NoSheepAlive =>
             /\ NoSheepAlive'
             /\ pc = "metab" => energy'[Cur] = energy[Cur] - Unit
             /\ pc = "feed" => energy' = energy
             /\ pc = "resolve" =>
                   /\ energy[Cur] < 0 <=> status'[Cur] = "dead"
                   /\ \A a \in Alive' : energy'[a] <= energy[Cur] \/ energy'[a] = energy[a]
             /\ LiveWolves # {} /\ LiveWolves' # {} => Doom' <= Doom
         ]_vars
====
